---- MODULE Spec2Model ----
(***************************************************************************)
(* Model of agentlens' aggregation and flow-graph layer                    *)
(* (src/utils/dataProcessing.js): the parsed CSV rows held by a view, the  *)
(* per-tool summaries of getAllToolStats, the node/link graph of           *)
(* prepareSankeyData in its two view modes, the means of                   *)
(* prepareToolMetrics and calculateSimpleTokenMetrics, and the graph       *)
(* builder of components/Tabs/ToolFlowTab.jsx with its error nodes.        *)
(***************************************************************************)
EXTENDS Integers, Sequences, FiniteSets, TLC

VARIABLES
    data,        \* the parsed rows, as loadCSVData resolves them
    pc,          \* "loaded" | "stats" | "sankey" | "metrics" | "tokens" | "flow":
                 \* the last call made on data
    toolStats,   \* result of getAllToolStats(data)
    sankeyData,  \* result of prepareSankeyData(data, null, viewMode)
    detailTool,  \* ToolDetail's toolName prop: the tool it is shown for
    metrics,     \* ToolDetail's metrics: prepareToolMetrics(data, toolName)
    tokenMetrics, \* result of calculateSimpleTokenMetrics(data)
    csvOk,          \* whether /agent_metrics.csv can be fetched
    inFlight,       \* the loads started and not yet settled, each with
                    \* the values its callback closed over
    isLoading,      \* the loading flag of the view
    searchTerm,     \* ToolsTab's search box
    sortKey,        \* ToolsTab's sort key
    sortOrder,      \* ToolsTab's sort order
    availableTools, \* MetricsTab's list of all tools
    selectedTools,  \* MetricsTab's selection
    currentViewMode \* ToolFlowTab's viewMode state

\* The state of the views beyond the results they hold.
viewVars ==
    <<csvOk, inFlight, isLoading, searchTerm, sortKey, sortOrder, availableTools,
      selectedTools, currentViewMode>>

vars == <<data, pc, toolStats, sankeyData, detailTool, metrics, tokenMetrics, viewVars>>

(***************************************************************************)
(* Cell values.  Papa.parse with header and dynamicTyping delivers a blank *)
(* cell as null, a cell missing from a short row as undefined, "true" and  *)
(* "false" as booleans and a numeric cell as a number.  Text cells are TLA+ *)
(* strings; a step is a tagged value so that null, undefined and numbers   *)
(* stay distinct under ===.                                                *)
(***************************************************************************)
Null == "<null>"

StepNum(n) == [t |-> "number", v |-> n]
StepNull == [t |-> "null", v |-> 0]
StepUndefined == [t |-> "undefined", v |-> 0]

\* ToNumber, as applied by the comparator a - b: null is 0.
ToNumber(step) == IF step.t = "number" THEN step.v ELSE 0

\* !value for a text cell: null and the empty string are falsy.
Falsy(value) == value \in {Null, ""}

\* UTF-16 code units of the tool names and search terms used as inputs.
CodeUnits ==
    [name \in {"", "A", "B", "C", "AB", "a", "b"} |->
        CASE name = "" -> <<>>
          [] name = "A" -> <<65>>
          [] name = "B" -> <<66>>
          [] name = "C" -> <<67>>
          [] name = "AB" -> <<65, 66>>
          [] name = "a" -> <<97>>
          [] name = "b" -> <<98>>]

\* Array index value of an object key, -1 when the key is no canonical
\* array index.  The use-case "7" stands for a directory named 7, which
\* dynamicTyping parses to the number 7 and the object key "7".
ArrayIndex(key) == IF key = "7" THEN 7 ELSE IF key = "10" THEN 10 ELSE -1

(***************************************************************************)
(* Array helpers                                                           *)
(***************************************************************************)
Contains(seq, e) == \E i \in 1..Len(seq) : seq[i] = e

RECURSIVE SumSeq(_)
SumSeq(seq) == IF seq = <<>> THEN 0 ELSE Head(seq) + SumSeq(Tail(seq))

\* _.uniq and [...new Set(array)]: first occurrences, in order.
RECURSIVE UniqFrom(_, _)
UniqFrom(seen, seq) ==
    IF seq = <<>> THEN seen
    ELSE UniqFrom(IF Contains(seen, Head(seq)) THEN seen ELSE Append(seen, Head(seq)),
                  Tail(seq))

Uniq(seq) == UniqFrom(<<>>, seq)

Map(seq, F(_)) == [i \in 1..Len(seq) |-> F(seq[i])]

\* String comparison by code units, as Array.prototype.sort() without a
\* comparator orders its elements.
RECURSIVE UnitsLess(_, _)
UnitsLess(a, b) ==
    IF b = <<>> THEN FALSE
    ELSE IF a = <<>> THEN TRUE
    ELSE IF Head(a) # Head(b) THEN Head(a) < Head(b)
    ELSE UnitsLess(Tail(a), Tail(b))

StringLess(a, b) == UnitsLess(CodeUnits[a], CodeUnits[b])

\* Array.prototype.sort() without a comparator: stable, by code units.
RECURSIVE InsertString(_, _)
InsertString(sorted, e) ==
    IF sorted = <<>> THEN <<e>>
    ELSE IF StringLess(e, Head(sorted)) THEN <<e>> \o sorted
    ELSE <<Head(sorted)>> \o InsertString(Tail(sorted), e)

RECURSIVE SortStringsFrom(_, _)
SortStringsFrom(sorted, seq) ==
    IF seq = <<>> THEN sorted
    ELSE SortStringsFrom(InsertString(sorted, Head(seq)), Tail(seq))

SortStrings(seq) == SortStringsFrom(<<>>, seq)

(***************************************************************************)
(* Per-tool summaries                                                      *)
(***************************************************************************)
extractUniqueToolsUnsorted(rows) ==
    SelectSeq(Uniq(Map(rows, LAMBDA row : row.tool_name)), LAMBDA name : ~Falsy(name))

extractUniqueTools(rows) ==
    SortStrings(SelectSeq(Uniq(Map(rows, LAMBDA row : row.tool_name)),
                          LAMBDA name : ~Falsy(name)))

\* A quotient of two lengths, kept exact as numerator and denominator.
Ratio(num, den) == [num |-> num, den |-> den]

\* Faulty variants of calculateToolStats: the error count taken over all
\* rows, and the row count taken over the rows of the tool without error.
calculateToolStatsAllErrors(rows, toolName) ==
    LET toolData == SelectSeq(rows, LAMBDA row : row.tool_name = toolName)
    IN  [name |-> toolName,
         count |-> Len(toolData),
         errorRate |-> Ratio(Len(SelectSeq(rows, LAMBDA row : row.has_error)),
                             Len(toolData)),
         useCases |-> Len(Uniq(Map(toolData, LAMBDA row : row.subdir)))]

calculateToolStatsUncounted(rows, toolName) ==
    LET toolData == SelectSeq(rows, LAMBDA row : row.tool_name = toolName)
    IN  [name |-> toolName,
         count |-> Len(SelectSeq(toolData, LAMBDA row : ~row.has_error)),
         errorRate |-> Ratio(Len(SelectSeq(toolData, LAMBDA row : row.has_error)),
                             Len(toolData)),
         useCases |-> Len(Uniq(Map(toolData, LAMBDA row : row.subdir)))]

calculateToolStats(rows, toolName) ==
    LET toolData == SelectSeq(rows, LAMBDA row : row.tool_name = toolName)
    IN  [name |-> toolName,
         count |-> Len(toolData),
         errorRate |-> Ratio(Len(SelectSeq(toolData, LAMBDA row : row.has_error)),
                             Len(toolData)),
         useCases |-> Len(Uniq(Map(toolData, LAMBDA row : row.subdir)))]

getAllToolStats(rows) ==
    Map(extractUniqueTools(rows), LAMBDA tool : calculateToolStats(rows, tool))

(***************************************************************************)
(* prepareSankeyData                                                       *)
(***************************************************************************)
\* Rows kept by the grouping loop: the guard returns on a falsy subdir, a
\* falsy tool_name, or a step that is undefined.
GraphRow(row) ==
    ~(Falsy(row.subdir) \/ Falsy(row.tool_name) \/ row.step = StepUndefined)

\* Object.entries(groupedByUseCase): the keys that are array indices in
\* ascending numeric order, then the other keys in insertion order.
RECURSIVE InsertIndexKey(_, _)
InsertIndexKey(sorted, key) ==
    IF sorted = <<>> THEN <<key>>
    ELSE IF ArrayIndex(key) < ArrayIndex(Head(sorted)) THEN <<key>> \o sorted
    ELSE <<Head(sorted)>> \o InsertIndexKey(Tail(sorted), key)

RECURSIVE SortIndexKeys(_, _)
SortIndexKeys(sorted, keys) ==
    IF keys = <<>> THEN sorted
    ELSE SortIndexKeys(InsertIndexKey(sorted, Head(keys)), Tail(keys))

OwnKeys(inserted) ==
    SortIndexKeys(<<>>, SelectSeq(inserted, LAMBDA key : ArrayIndex(key) >= 0))
    \o SelectSeq(inserted, LAMBDA key : ArrayIndex(key) < 0)

groupedByUseCaseKeys(rows) ==
    OwnKeys(Uniq(Map(SelectSeq(rows, GraphRow), LAMBDA row : row.subdir)))

groupedByUseCase(rows, subdir) ==
    SelectSeq(rows, LAMBDA row : GraphRow(row) /\ row.subdir = subdir)

\* steps.sort((a, b) => a - b): stable, by numeric value.
RECURSIVE InsertStep(_, _)
InsertStep(sorted, step) ==
    IF sorted = <<>> THEN <<step>>
    ELSE IF ToNumber(step) - ToNumber(Head(sorted)) < 0 THEN <<step>> \o sorted
    ELSE <<Head(sorted)>> \o InsertStep(Tail(sorted), step)

RECURSIVE SortSteps(_, _)
SortSteps(sorted, steps) ==
    IF steps = <<>> THEN sorted
    ELSE SortSteps(InsertStep(sorted, Head(steps)), Tail(steps))

UseCaseSteps(rows) == SortSteps(<<>>, Uniq(Map(rows, LAMBDA r : r.step)))

stepMap(rows, step) ==
    Uniq(Map(SelectSeq(rows, LAMBDA r : r.step = step), LAMBDA r : r.tool_name))

\* `${tool} @ Step ${step}`: a step prints as its decimal digits or as
\* "null", and no step's text contains " @ Step ", so the key determines the
\* pair of tool and printed step.
StepText(step) == IF step.t = "number" THEN ToString(step.v) ELSE step.t

NodeKey(tool, step) == <<tool, StepText(step)>>

\* i / (stepCount - 1 || 1); the faulty variant divides by stepCount - 1
\* as it stands, which is 0 / 0 for a use-case of one step.
normalizedXUnguarded(i, stepCount) == Ratio(i, stepCount - 1)

normalizedX(i, stepCount) == Ratio(i, IF stepCount - 1 # 0 THEN stepCount - 1 ELSE 1)

\* viewMode === "errors" && !hasErrors, the guard that drops a node;
\* the faulty variant never drops.
SkipNodeNever(viewMode, hasErrors) == FALSE

\* A second faulty variant: the guard applied to the wrong view mode.
SkipNodeInAll(viewMode, hasErrors) == viewMode = "all" /\ ~hasErrors

SkipNode(viewMode, hasErrors) == viewMode = "errors" /\ ~hasErrors

\* nodeIndexMap.has(key); the faulty variant forgets the nodes already made.
HasNodeForgotten(nodeIndexMap, key) == FALSE

HasNode(nodeIndexMap, key) == key \in DOMAIN nodeIndexMap

\* nodeId++; the faulty variant skips a number.
NextNodeIdSkipping(nodeId) == nodeId + 2

NextNodeId(nodeId) == nodeId + 1

\* The inner stepMap[step].forEach(tool => ...) that adds the nodes of a step.
RECURSIVE AddNodes(_, _, _, _, _, _)
AddNodes(acc, rows, step, x, tools, viewMode) ==
    IF tools = <<>> THEN acc
    ELSE
        LET tool == Head(tools)
            toolStepRows == SelectSeq(rows, LAMBDA r : r.step = step /\ r.tool_name = tool)
            errorRows == SelectSeq(toolStepRows, LAMBDA r : r.has_error)
            hasErrors == Len(errorRows) > 0
            errorRate == IF Len(toolStepRows) > 0
                            THEN Ratio(Len(errorRows), Len(toolStepRows))
                            ELSE Ratio(0, 1)
            key == NodeKey(tool, step)
            next ==
                IF SkipNode(viewMode, hasErrors) THEN acc
                ELSE IF HasNode(acc.nodeIndexMap, key) THEN acc
                ELSE [acc EXCEPT
                        !.nodeIndexMap = (key :> acc.nodeId) @@ @,
                        !.nodes = Append(@, [name |-> key,
                                             tool |-> tool,
                                             step |-> step,
                                             x |-> x,
                                             hasErrors |-> hasErrors,
                                             errorCount |-> Len(errorRows),
                                             totalCount |-> Len(toolStepRows),
                                             errorRate |-> errorRate]),
                        !.nodeId = NextNodeId(@)]
        IN  AddNodes(next, rows, step, x, Tail(tools), viewMode)

\* The rows counted for a link: those of fromTool at fromStep, provided the
\* use-case has a row of toTool at toStep.
Transitions(rows, fromStep, fromTool, toStep, toTool) ==
    SelectSeq(rows, LAMBDA r :
        /\ r.step = fromStep
        /\ r.tool_name = fromTool
        /\ \E j \in 1..Len(rows) :
              /\ rows[j].subdir = r.subdir
              /\ rows[j].step = toStep
              /\ rows[j].tool_name = toTool)

\* viewMode === "errors" && !hasErrors, the guard that drops a link; the
\* faulty variant never drops.
SkipLinkNever(viewMode, hasErrors) == FALSE

SkipLink(viewMode, hasErrors) == viewMode = "errors" /\ ~hasErrors

\* links.find(l => l.source === source && l.target === target): the index
\* of the first such link, 0 when there is none.
FindLink(links, source, target) ==
    IF \E k \in 1..Len(links) : links[k].source = source /\ links[k].target = target
    THEN CHOOSE k \in 1..Len(links) :
            /\ links[k].source = source /\ links[k].target = target
            /\ \A m \in 1..(k - 1) : ~(links[m].source = source /\ links[m].target = target)
    ELSE 0

\* The body of stepMap[toStep].forEach(toTool => ...) for one pair of tools.
AddLink(links, nodeIndexMap, rows, fromStep, fromTool, toStep, toTool, viewMode) ==
    LET fromKey == NodeKey(fromTool, fromStep)
        toKey == NodeKey(toTool, toStep)
    IN  IF ~HasNode(nodeIndexMap, fromKey) \/ ~HasNode(nodeIndexMap, toKey) THEN links
        ELSE
            LET source == nodeIndexMap[fromKey]
                target == nodeIndexMap[toKey]
                transitions == Transitions(rows, fromStep, fromTool, toStep, toTool)
                errorTransitions == SelectSeq(transitions, LAMBDA r : r.has_error)
                hasErrors == Len(errorTransitions) > 0
                existing == FindLink(links, source, target)
            IN  IF SkipLink(viewMode, hasErrors) THEN links
                ELSE IF Len(transitions) = 0 THEN links
                ELSE IF existing # 0
                    THEN [links EXCEPT
                            ![existing].value = @ + Len(transitions),
                            ![existing].errorCount = @ + Len(errorTransitions),
                            ![existing].hasErrors = @ \/ hasErrors]
                    ELSE Append(links, [source |-> source,
                                        target |-> target,
                                        value |-> Len(transitions),
                                        errorCount |-> Len(errorTransitions),
                                        hasErrors |-> hasErrors])

RECURSIVE AddLinksTo(_, _, _, _, _, _, _, _)
AddLinksTo(links, nodeIndexMap, rows, fromStep, fromTool, toStep, toTools, viewMode) ==
    IF toTools = <<>> THEN links
    ELSE AddLinksTo(AddLink(links, nodeIndexMap, rows, fromStep, fromTool, toStep,
                            Head(toTools), viewMode),
                    nodeIndexMap, rows, fromStep, fromTool, toStep, Tail(toTools), viewMode)

RECURSIVE AddLinksFrom(_, _, _, _, _, _, _, _)
AddLinksFrom(links, nodeIndexMap, rows, fromStep, fromTools, toStep, toTools, viewMode) ==
    IF fromTools = <<>> THEN links
    ELSE AddLinksFrom(AddLinksTo(links, nodeIndexMap, rows, fromStep, Head(fromTools),
                                 toStep, toTools, viewMode),
                      nodeIndexMap, rows, fromStep, Tail(fromTools), toStep, toTools,
                      viewMode)

\* steps.forEach((step, i) => ...): the nodes of steps[i], then the links
\* from steps[i] to steps[i + 1].  i counts from 0 as in the source.
RECURSIVE AddSteps(_, _, _, _, _)
AddSteps(acc, rows, steps, i, viewMode) ==
    IF i >= Len(steps) THEN acc
    ELSE
        LET step == steps[i + 1]
            withNodes == AddNodes(acc, rows, step, normalizedX(i, Len(steps)),
                                  stepMap(rows, step), viewMode)
            withLinks ==
                IF i < Len(steps) - 1
                THEN [withNodes EXCEPT
                        !.links = AddLinksFrom(@, withNodes.nodeIndexMap, rows, step,
                                               stepMap(rows, step), steps[i + 2],
                                               stepMap(rows, steps[i + 2]), viewMode)]
                ELSE withNodes
        IN  AddSteps(withLinks, rows, steps, i + 1, viewMode)

\* Object.entries(groupedByUseCase).forEach(([subdir, rows]) => ...)
RECURSIVE AddUseCases(_, _, _, _)
AddUseCases(acc, rows, subdirs, viewMode) ==
    IF subdirs = <<>> THEN acc
    ELSE
        LET useCaseRows == groupedByUseCase(rows, Head(subdirs))
        IN  AddUseCases(AddSteps(acc, useCaseRows, UseCaseSteps(useCaseRows), 0, viewMode),
                        rows, Tail(subdirs), viewMode)

\* The default palette of prepareSankeyData.
colors ==
    <<"#e6194B", "#3cb44b", "#ffe119", "#4363d8", "#f58231",
      "#911eb4", "#42d4f4", "#f032e6", "#bfef45", "#fabebe",
      "#469990", "#dcbeff", "#9A6324", "#800000", "#aaffc3",
      "#808000", "#ffd8b1", "#000075", "#a9a9a9", "#000000">>

\* toolSet: the tool names of the rows kept by the grouping loop.
toolSet(rows) == Uniq(Map(SelectSeq(rows, GraphRow), LAMBDA row : row.tool_name))

\* toolColors when no colour map is passed: the sorted toolSet, each tool
\* given colors[i % colors.length] for its index i (from 0).
defaultToolColors(rows) ==
    LET toolList == SortStrings(toolSet(rows))
    IN  [tool \in {toolList[k] : k \in 1..Len(toolList)} |->
            LET i == (CHOOSE k \in 1..Len(toolList) : toolList[k] = tool) - 1
            IN  colors[(i % Len(colors)) + 1]]

\* Math.max(...values): -Infinity when there is no value.
NegInfinity == [t |-> "-Infinity", v |-> 0]

RECURSIVE MathMaxFrom(_, _)
MathMaxFrom(best, values) ==
    IF values = <<>> THEN best
    ELSE MathMaxFrom(IF best = NegInfinity \/ Head(values) > best.v
                        THEN StepNum(Head(values)) ELSE best,
                     Tail(values))

MathMax(values) == MathMaxFrom(NegInfinity, values)

\* Math.max(...nodes.map(n => n.step || 0), 1); the faulty variant leaves
\* out the final 1.
stepCountWithoutFloor(graphNodes) ==
    MathMax(Map(graphNodes, LAMBDA n : ToNumber(n.step)))

stepCount(graphNodes) ==
    MathMax(Append(Map(graphNodes, LAMBDA n : ToNumber(n.step)), 1))

\* The returned object, and nodeIndexMap beside it: the map is local to the
\* function and is kept here as the numbering the links refer to.
prepareSankeyData(rows, viewMode) ==
    LET built == AddUseCases([nodes |-> <<>>,
                              nodeIndexMap |-> [key \in {} |-> 0],
                              nodeId |-> 0,
                              links |-> <<>>],
                             rows, groupedByUseCaseKeys(rows), viewMode)
    IN  [nodes |-> built.nodes,
         links |-> built.links,
         toolColors |-> defaultToolColors(rows),
         stepCount |-> stepCount(built.nodes),
         nodeX |-> Map(built.nodes, LAMBDA n : n.x),
         nodeIndexMap |-> built.nodeIndexMap,
         viewMode |-> viewMode]

(***************************************************************************)
(* Inputs                                                                  *)
(***************************************************************************)
MaxStatsRows == 4
MaxRows == 3

Row(tool, subdir, step, err) ==
    [tool_name |-> tool, subdir |-> subdir, step |-> step, has_error |-> err]

ViewModes == {"all", "errors"}

\* Rows for the summaries: three tools whose code-unit order differs from
\* their alphabetical order, and rows with a blank tool_name.
StatsTools == {"AB", "B", "a"}

StatsRows ==
    {Row(tool, "u1", StepNum(1), err) : tool \in StatsTools \cup {Null}, err \in BOOLEAN}

\* Rows for the flow graph: two tools, two use-cases (one of them an array
\* index key), two steps; and one row for each kind of gap: a blank
\* tool_name, a blank subdir, a blank step (null) and a step cell missing
\* from a short row (undefined).
Tools == {"A", "B"}

UseCases == {"7", "u1"}

Steps == {StepNum(1), StepNum(2)}

FullRows ==
    {Row(tool, subdir, step, err) :
        tool \in Tools, subdir \in UseCases, step \in Steps, err \in BOOLEAN}

GapRows ==
    {Row(Null, "u1", StepNum(1), TRUE),
     Row("A", Null, StepNum(1), TRUE),
     Row("A", "u1", StepNull, TRUE),
     Row("A", "u1", StepUndefined, TRUE)}

SankeyRows == FullRows \cup GapRows

SeqsUpTo(S, n) == UNION {[1..k -> S] : k \in 0..n}

\* useState(null) of ToolDetail's metrics: the value before any load completes,
\* a record as the loaded metrics are, so that the two compare.
NoMetrics == [t |-> "null"]

\* The graph variable before any call: no graph yet.
NoSankey ==
    [nodes |-> <<>>, links |-> <<>>, toolColors |-> [tool \in {} |-> ""],
     stepCount |-> StepNum(0), nodeX |-> <<>>, nodeIndexMap |-> [key \in {} |-> 0],
     viewMode |-> "all"]

(***************************************************************************)
(* The summaries of a loaded table                                         *)
(***************************************************************************)
\* No view mounted: the states of the useState calls, nothing in flight.
ViewsIdle ==
    /\ csvOk = TRUE
    /\ inFlight = {}
    /\ isLoading = FALSE
    /\ searchTerm = ""
    /\ sortKey = "count"
    /\ sortOrder = "desc"
    /\ availableTools = <<>>
    /\ selectedTools = <<>>
    /\ currentViewMode = "all"

InitStats ==
    /\ data \in SeqsUpTo(StatsRows, MaxStatsRows)
    /\ pc = "loaded"
    /\ toolStats = <<>>
    /\ sankeyData = NoSankey
    /\ detailTool = Null
    /\ metrics = NoMetrics
    /\ tokenMetrics = <<>>
    /\ ViewsIdle

CallGetAllToolStats ==
    /\ pc = "loaded"
    /\ toolStats' = getAllToolStats(data)
    /\ pc' = "stats"
    /\ UNCHANGED <<data, sankeyData, detailTool, metrics, tokenMetrics, viewVars>>

NextStats == CallGetAllToolStats

SpecStats == InitStats /\ [][NextStats]_vars

(***************************************************************************)
(* The flow graph of a loaded table                                        *)
(***************************************************************************)
\* Logs of a two-step pipeline (tool A at step 1, tool B at step 2) run in
\* three use-cases and written use-case by use-case, each use-case leaving
\* no row, one row or two rows.
PipelineRows(subdir) ==
    {Row("A", subdir, StepNum(1), err) : err \in BOOLEAN}
    \cup {Row("B", subdir, StepNum(2), err) : err \in BOOLEAN}

PipelineTraces(subdir) ==
    {<<>>}
    \cup {<<row>> : row \in PipelineRows(subdir)}
    \cup {<<first, second>> : first \in PipelineRows(subdir), second \in PipelineRows(subdir)}

PipelineLogs ==
    {a \o b \o c : a \in PipelineTraces("7"), b \in PipelineTraces("u1"),
                   c \in PipelineTraces("u2")}

InitSankey ==
    /\ data \in SeqsUpTo(SankeyRows, MaxRows) \cup PipelineLogs
    /\ pc = "loaded"
    /\ toolStats = <<>>
    /\ sankeyData = NoSankey
    /\ detailTool = Null
    /\ metrics = NoMetrics
    /\ tokenMetrics = <<>>
    /\ ViewsIdle

CallPrepareSankeyData ==
    \E viewMode \in ViewModes :
        /\ pc = "loaded"
        /\ sankeyData' = prepareSankeyData(data, viewMode)
        /\ pc' = "sankey"
        /\ UNCHANGED <<data, toolStats, detailTool, metrics, tokenMetrics, viewVars>>

NextSankey == CallPrepareSankeyData

SpecSankey == InitSankey /\ [][NextSankey]_vars

(***************************************************************************)
(* Means and ratios of numeric fields (prepareToolMetrics,                 *)
(* calculateSimpleTokenMetrics).  A numeric cell is a number, null (blank  *)
(* cell) or undefined (short row); a quotient is kept exact or is NaN.     *)
(***************************************************************************)
NumberCell(n) == [t |-> "number", v |-> n]

NullCell == [t |-> "null", v |-> 0]

UndefinedCell == [t |-> "undefined", v |-> 0]

NaN == [t |-> "NaN", num |-> 0, den |-> 0]

\* num / den for counts and sums that are 0 when den is 0: 0 / 0 is NaN.
Divide(num, den) ==
    IF den = 0 THEN NaN ELSE [t |-> "number", num |-> num, den |-> den]

\* lodash baseSum: undefined values are skipped, the first value that is
\* not undefined starts the sum and the others are added with +, where
\* null is 0.
RECURSIVE baseSum(_, _)
baseSum(result, values) ==
    IF values = <<>> THEN result
    ELSE LET current == Head(values)
         IN  IF current.t = "undefined" THEN baseSum(result, Tail(values))
             ELSE IF result.t = "undefined" THEN baseSum(current, Tail(values))
             ELSE baseSum(NumberCell(ToNumber(result) + ToNumber(current)), Tail(values))

\* lodash meanBy(array, field): baseSum / array.length, NaN for an empty
\* array and when every value is undefined (undefined / length).
meanBy(rows, field) ==
    LET sum == baseSum(UndefinedCell, Map(rows, LAMBDA row : row[field]))
    IN  IF Len(rows) = 0 \/ sum.t = "undefined" THEN NaN
        ELSE Divide(ToNumber(sum), Len(rows))

\* The overall fields of the result; stepMetrics, which the properties do
\* not read, is left out.
prepareToolMetrics(rows, tool) ==
    LET filteredData == IF ~Falsy(tool)
                        THEN SelectSeq(rows, LAMBDA row : row.tool_name = tool)
                        ELSE rows
    IN  [overallErrorRate |->
             Divide(Len(SelectSeq(filteredData, LAMBDA row : row.has_error)),
                    Len(filteredData)),
         avgDuration |-> meanBy(filteredData, "duration"),
         avgTokens |-> meanBy(filteredData, "token_count"),
         tokenDistribution |->
             [completion |-> meanBy(filteredData, "completion_tokens"),
              prompt |-> meanBy(filteredData, "prompt_tokens"),
              cached_tokens_pct |-> meanBy(filteredData, "cached_tokens_pct")]]

\* Number(value) || 0: null is 0, undefined is NaN, and both give 0.
NumberOrZero(cell) == IF cell.t = "number" THEN cell.v ELSE 0

\* Math.round of a quotient of naturals: halves round up.
MathRound(num, den) == (2 * num + den) \div (2 * den)

calculateSimpleTokenMetrics(rows) ==
    Map(extractUniqueTools(rows), LAMBDA tool :
        LET toolData == SelectSeq(rows, LAMBDA row : row.tool_name = tool)
            total(field) == SumSeq(Map(toolData, LAMBDA row : NumberOrZero(row[field])))
        IN  IF Len(toolData) = 0
            THEN [tool |-> tool, prompt |-> 0, completion |-> 0, total |-> 0]
            ELSE [tool |-> tool,
                  prompt |-> MathRound(total("prompt_tokens"), Len(toolData)),
                  completion |-> MathRound(total("completion_tokens"), Len(toolData)),
                  total |-> MathRound(total("token_count"), Len(toolData))])

\* Rows for the means: two tools, with every numeric cell filled (two
\* durations), with the cells blank, and short rows that end before them;
\* and the tools ToolDetail may be shown for, one of them not in the table.
MetricRow(tool, err, duration, tokens, prompt, completion, cached) ==
    [tool_name |-> tool, has_error |-> err, duration |-> duration,
     token_count |-> tokens, prompt_tokens |-> prompt,
     completion_tokens |-> completion, cached_tokens_pct |-> cached]

MetricRows ==
    {MetricRow(tool, err, NumberCell(duration), NumberCell(3), NumberCell(2),
               NumberCell(1), NumberCell(0)) :
        tool \in Tools, err \in BOOLEAN, duration \in {2, 4}}
    \cup {MetricRow(tool, err, NullCell, NullCell, NullCell, NullCell, NullCell) :
             tool \in Tools, err \in BOOLEAN}
    \cup {MetricRow(tool, err, UndefinedCell, UndefinedCell, UndefinedCell,
                    UndefinedCell, UndefinedCell) :
             tool \in Tools, err \in BOOLEAN}

ToolNames == Tools \cup {"AB", Null}

InitMetrics ==
    /\ data \in SeqsUpTo(MetricRows, MaxRows)
    /\ pc = "loaded"
    /\ toolStats = <<>>
    /\ sankeyData = NoSankey
    /\ detailTool \in ToolNames
    /\ metrics = NoMetrics
    /\ tokenMetrics = <<>>
    /\ ViewsIdle

\* ToolDetail's load: const detail = prepareToolMetrics(data, toolName);
\* setMetrics(detail), toolName being the prop held in detailTool.
CallPrepareToolMetrics ==
    /\ pc = "loaded"
    /\ metrics' = prepareToolMetrics(data, detailTool)
    /\ pc' = "metrics"
    /\ UNCHANGED <<data, toolStats, sankeyData, detailTool, tokenMetrics, viewVars>>

CallCalculateSimpleTokenMetrics ==
    /\ pc = "loaded"
    /\ tokenMetrics' = calculateSimpleTokenMetrics(data)
    /\ pc' = "tokens"
    /\ UNCHANGED <<data, toolStats, sankeyData, detailTool, metrics, viewVars>>

NextMetrics == CallPrepareToolMetrics \/ CallCalculateSimpleTokenMetrics

SpecMetrics == InitMetrics /\ [][NextMetrics]_vars

(***************************************************************************)
(* ToolFlowTab's own graph builder (components/Tabs/ToolFlowTab.jsx): tool *)
(* nodes for every step of the table, one synthetic error node between two *)
(* steps and a terminal error node after the last, then the links of each  *)
(* use-case.                                                               *)
(***************************************************************************)
EXTENDED_COLORS ==
    <<"#e6194b", "#3cb44b", "#ffe119", "#4363d8", "#f58231",
      "#911eb4", "#46f0f0", "#f032e6", "#bcf60c", "#fabebe",
      "#008080", "#e6beff", "#9a6324", "#fffac8", "#800000",
      "#aaffc3", "#808000", "#ffd8b1", "#000075", "#808080">>

\* colorMap[tool] = EXTENDED_COLORS[index % EXTENDED_COLORS.length] over
\* extractUniqueTools(parsed).
colorMap(rows) ==
    LET tools == extractUniqueTools(rows)
    IN  [tool \in {tools[k] : k \in 1..Len(tools)} |->
            LET index == (CHOOSE k \in 1..Len(tools) : tools[k] = tool) - 1
            IN  EXTENDED_COLORS[(index % Len(EXTENDED_COLORS)) + 1]]

\* The steps of the whole table, rows without subdir or tool included.
allSteps(rows) ==
    SortSteps(<<>>, Uniq(Map(SelectSeq(rows, LAMBDA row : row.step.t # "undefined"),
                             LAMBDA row : row.step)))

\* step + 0.5: the half step of an error node, kept as the step below it.
HalfStep(step) == [t |-> "half", v |-> ToNumber(step)]

\* (normalizedX + nextNormalizedX) / 2
errorNodeX(x, nextX) == Ratio(x.num * nextX.den + nextX.num * x.den, 2 * x.den * nextX.den)

\* normalizedX + 0.15, 0.15 being 3 / 20.
terminalErrorNodeX(x) == Ratio(20 * x.num + 3 * x.den, 20 * x.den)

\* `${step}-${nextStep}`
ErrorNodeKey(step, nextStep) == <<StepText(step), StepText(nextStep)>>

\* Absent terminalErrorNodeId (null) and absent map entry (undefined).
NoNodeId == -1

\* toolsAtStep.forEach(tool => ...) of the first pass.
RECURSIVE AddToolNodes(_, _, _, _, _)
AddToolNodes(acc, rows, step, x, tools) ==
    IF tools = <<>> THEN acc
    ELSE
        LET tool == Head(tools)
            toolStepRows == SelectSeq(rows, LAMBDA r : r.step = step /\ r.tool_name = tool)
            errorRows == SelectSeq(toolStepRows, LAMBDA r : r.has_error)
            key == NodeKey(tool, step)
            next ==
                IF HasNode(acc.nodeIndexMap, key) THEN acc
                ELSE [acc EXCEPT
                        !.nodeIndexMap = (key :> Len(acc.nodes)) @@ @,
                        !.nodes = Append(@, [name |-> key,
                                             tool |-> tool,
                                             step |-> step,
                                             x |-> x,
                                             hasErrors |-> Len(errorRows) > 0,
                                             errorCount |-> Len(errorRows),
                                             totalCount |-> Len(toolStepRows),
                                             errorRate |->
                                                 IF Len(toolStepRows) > 0
                                                 THEN Ratio(Len(errorRows), Len(toolStepRows))
                                                 ELSE Ratio(0, 1),
                                             isErrorNode |-> FALSE])]
        IN  AddToolNodes(next, rows, step, x, Tail(tools))

\* The error node between allSteps[i] and allSteps[i + 1].
AddErrorNode(acc, rows, steps, i, viewMode) ==
    LET step == steps[i + 1]
        hasErrorsInStep == \E k \in 1..Len(rows) : rows[k].step = step /\ rows[k].has_error
    IN  IF /\ i < Len(steps) - 1
           /\ \/ viewMode = "errors" /\ hasErrorsInStep
              \/ viewMode = "errors" /\ i = Len(steps) - 2
        THEN LET nextStep == steps[i + 2]
             IN  [acc EXCEPT
                    !.errorNodeIds = (ErrorNodeKey(step, nextStep) :> Len(acc.nodes)) @@ @,
                    !.nodes = Append(@,
                        [name |-> <<"Error", StepText(step), StepText(nextStep)>>,
                         tool |-> "Error",
                         step |-> HalfStep(step),
                         x |-> errorNodeX(normalizedX(i, Len(steps)),
                                          normalizedX(i + 1, Len(steps))),
                         isErrorNode |-> TRUE,
                         fromStep |-> step,
                         toStep |-> nextStep,
                         errorCount |->
                             Len(SelectSeq(rows, LAMBDA r : r.step = step /\ r.has_error))])]
        ELSE acc

\* The terminal error node after the last step.
AddTerminalErrorNode(acc, rows, steps, i, viewMode) ==
    LET step == steps[i + 1]
        hasErrorsInLastStep ==
            \E k \in 1..Len(rows) : rows[k].step = step /\ rows[k].has_error
    IN  IF i = Len(steps) - 1 /\ viewMode = "errors" /\ hasErrorsInLastStep
        THEN [acc EXCEPT
                !.terminalErrorNodeId = Len(acc.nodes),
                !.nodes = Append(@,
                    [name |-> <<"Error", StepText(step), "(Terminal)">>,
                     tool |-> "Terminal Error",
                     step |-> HalfStep(step),
                     x |-> terminalErrorNodeX(normalizedX(i, Len(steps))),
                     isErrorNode |-> TRUE,
                     fromStep |-> step,
                     toStep |-> StepNull,
                     isTerminal |-> TRUE,
                     errorCount |->
                         Len(SelectSeq(rows, LAMBDA r : r.step = step /\ r.has_error))])]
        ELSE acc

\* First pass: allSteps.forEach((step, i) => ...), i counting from 0.
RECURSIVE FirstPass(_, _, _, _, _)
FirstPass(acc, rows, steps, i, viewMode) ==
    IF i >= Len(steps) THEN acc
    ELSE
        LET step == steps[i + 1]
            toolsAtStep == Uniq(Map(SelectSeq(rows, LAMBDA r : r.step = step),
                                    LAMBDA r : r.tool_name))
            withTools == AddToolNodes(acc, rows, step, normalizedX(i, Len(steps)),
                                      toolsAtStep)
            withError == AddErrorNode(withTools, rows, steps, i, viewMode)
        IN  FirstPass(AddTerminalErrorNode(withError, rows, steps, i, viewMode),
                      rows, steps, i + 1, viewMode)

NodeIdOf(map, key) == IF key \in DOMAIN map THEN map[key] ELSE NoNodeId

\* The link of a tool's error rows to the terminal error node or to the
\* error node that follows the step.
AddErrorLink(links, built, useCaseSteps, i, source, errorCount, viewMode) ==
    LET isLastStep == i = Len(useCaseSteps) - 1
        errorNodeId ==
            IF isLastStep THEN NoNodeId
            ELSE NodeIdOf(built.errorNodeIds,
                          ErrorNodeKey(useCaseSteps[i + 1], useCaseSteps[i + 2]))
        link(target) == [source |-> source, target |-> target,
                         value |-> errorCount, isErrorLink |-> TRUE]
    IN  IF errorCount > 0 /\ viewMode = "errors"
        THEN IF isLastStep /\ built.terminalErrorNodeId # NoNodeId
                THEN Append(links, link(built.terminalErrorNodeId))
             ELSE IF ~isLastStep /\ errorNodeId # NoNodeId
                THEN Append(links, link(errorNodeId))
             ELSE links
        ELSE links

\* [...nextToolsSet].forEach(nextTool => ...): the links of the rows without
\* error to the tools of the next step.
RECURSIVE AddSuccessLinks(_, _, _, _, _, _)
AddSuccessLinks(links, built, source, nextStep, nextTools, transitionCount) ==
    IF nextTools = <<>> THEN links
    ELSE
        LET target == NodeIdOf(built.nodeIndexMap, NodeKey(Head(nextTools), nextStep))
            existingLink == FindLink(links, source, target)
            next ==
                IF target = NoNodeId THEN links
                ELSE IF transitionCount > 0
                    THEN IF existingLink # 0
                            THEN [links EXCEPT ![existingLink].value = @ + transitionCount]
                            ELSE Append(links, [source |-> source, target |-> target,
                                                value |-> transitionCount,
                                                isErrorLink |-> FALSE])
                ELSE links
        IN  AddSuccessLinks(next, built, source, nextStep, Tail(nextTools), transitionCount)

\* toolsAtStep.forEach(tool => ...) of the second pass.
RECURSIVE AddToolLinks(_, _, _, _, _, _, _)
AddToolLinks(links, built, rows, useCaseSteps, i, tools, viewMode) ==
    IF tools = <<>> THEN links
    ELSE
        LET tool == Head(tools)
            step == useCaseSteps[i + 1]
            isLastStep == i = Len(useCaseSteps) - 1
            source == NodeIdOf(built.nodeIndexMap, NodeKey(tool, step))
            toolRows == SelectSeq(rows, LAMBDA r : r.step = step /\ r.tool_name = tool)
            errorRows == SelectSeq(toolRows, LAMBDA r : r.has_error)
            nonErrorRows == SelectSeq(toolRows, LAMBDA r : ~r.has_error)
            withError == AddErrorLink(links, built, useCaseSteps, i, source,
                                      Len(errorRows), viewMode)
            nextToolsSet == IF isLastStep \/ nonErrorRows = <<>> THEN <<>>
                            ELSE stepMap(rows, useCaseSteps[i + 2])
            next ==
                IF source = NoNodeId THEN links
                ELSE IF isLastStep THEN withError
                ELSE AddSuccessLinks(withError, built, source, useCaseSteps[i + 2],
                                     nextToolsSet, Len(nonErrorRows))
        IN  AddToolLinks(next, built, rows, useCaseSteps, i, Tail(tools), viewMode)

\* nextToolsAfterError.forEach(nextTool => ...): the links from the error
\* node to the tools of the next step.
RECURSIVE AddAfterErrorLinks(_, _, _, _, _, _)
AddAfterErrorLinks(links, built, errorNodeId, nextStep, nextTools, errorToToolCount) ==
    IF nextTools = <<>> THEN links
    ELSE
        LET target == NodeIdOf(built.nodeIndexMap, NodeKey(Head(nextTools), nextStep))
            next ==
                IF target # NoNodeId /\ errorToToolCount > 0
                THEN Append(links, [source |-> errorNodeId, target |-> target,
                                    value |-> errorToToolCount, isErrorLink |-> TRUE])
                ELSE links
        IN  AddAfterErrorLinks(next, built, errorNodeId, nextStep, Tail(nextTools),
                               errorToToolCount)

\* useCaseSteps.forEach((step, i) => ...) of the second pass.
RECURSIVE AddStepLinks(_, _, _, _, _, _)
AddStepLinks(links, built, rows, useCaseSteps, i, viewMode) ==
    IF i >= Len(useCaseSteps) THEN links
    ELSE
        LET step == useCaseSteps[i + 1]
            isLastStep == i = Len(useCaseSteps) - 1
            withTools == AddToolLinks(links, built, rows, useCaseSteps, i,
                                      stepMap(rows, step), viewMode)
            stepErrorRows == SelectSeq(rows, LAMBDA r : r.step = step /\ r.has_error)
            errorNodeId ==
                IF isLastStep THEN NoNodeId
                ELSE NodeIdOf(built.errorNodeIds, ErrorNodeKey(step, useCaseSteps[i + 2]))
            withAfterError ==
                IF viewMode = "errors" /\ ~isLastStep /\ errorNodeId # NoNodeId
                THEN AddAfterErrorLinks(withTools, built, errorNodeId, useCaseSteps[i + 2],
                                        IF stepErrorRows = <<>> THEN <<>>
                                        ELSE stepMap(rows, useCaseSteps[i + 2]),
                                        Len(stepErrorRows))
                ELSE withTools
        IN  AddStepLinks(withAfterError, built, rows, useCaseSteps, i + 1, viewMode)

\* Second pass: Object.entries(groupedByUseCase).forEach(([subdir, rows]) => ...)
RECURSIVE SecondPass(_, _, _, _, _)
SecondPass(links, built, rows, subdirs, viewMode) ==
    IF subdirs = <<>> THEN links
    ELSE
        LET useCaseRows == groupedByUseCase(rows, Head(subdirs))
        IN  SecondPass(AddStepLinks(links, built, useCaseRows, UseCaseSteps(useCaseRows),
                                    0, viewMode),
                       built, rows, Tail(subdirs), viewMode)

\* ToolFlowTab's prepareSankeyData(data, colorMap, viewMode).
toolFlowPrepareSankeyData(rows, toolColorMap, viewMode) ==
    LET built == FirstPass([nodes |-> <<>>,
                            nodeIndexMap |-> [key \in {} |-> 0],
                            errorNodeIds |-> [key \in {} |-> 0],
                            terminalErrorNodeId |-> NoNodeId],
                           rows, allSteps(rows), 0, viewMode)
    IN  [nodes |-> built.nodes,
         links |-> SecondPass(<<>>, built, rows, groupedByUseCaseKeys(rows), viewMode),
         toolColors |-> toolColorMap,
         stepCount |-> stepCount(SelectSeq(built.nodes, LAMBDA n : ~n.isErrorNode)),
         nodeX |-> Map(built.nodes, LAMBDA n : n.x),
         viewMode |-> viewMode]

FlowViewModes == {"normal", "errors"}

InitFlow ==
    /\ data \in SeqsUpTo(SankeyRows, MaxRows) \cup PipelineLogs
    /\ pc = "loaded"
    /\ toolStats = <<>>
    /\ sankeyData = NoSankey
    /\ detailTool = Null
    /\ metrics = NoMetrics
    /\ tokenMetrics = <<>>
    /\ ViewsIdle

\* The load effect of ToolFlowTab for a view mode: colorMap from
\* extractUniqueTools(parsed), then setSankeyData(prepareSankeyData(parsed,
\* colorMap, viewMode)).
LoadToolFlow ==
    \E viewMode \in FlowViewModes :
        /\ pc = "loaded"
        /\ sankeyData' = toolFlowPrepareSankeyData(data, colorMap(data), viewMode)
        /\ pc' = "flow"
        /\ UNCHANGED <<data, toolStats, detailTool, metrics, tokenMetrics, viewVars>>

NextFlow == LoadToolFlow

SpecFlow == InitFlow /\ [][NextFlow]_vars

(***************************************************************************)
(* Properties of the summaries                                             *)
(***************************************************************************)
RowIndices == 1..Len(data)

NamedRows == {i \in RowIndices : data[i].tool_name # Null}

ErrorRowsOf(name) == {i \in RowIndices : data[i].tool_name = name /\ data[i].has_error}

\* C1: for every non-empty record sequence, the counts of the summaries
\* returned by getAllToolStats add up to the number of records whose
\* tool_name is not null.
C1_CountsSumToNamedRows ==
    (pc = "stats" /\ data # <<>>) =>
        SumSeq(Map(toolStats, LAMBDA summary : summary.count)) = Cardinality(NamedRows)

C1_Witness ==
    /\ pc = "stats"
    /\ Len(toolStats) >= 2
    /\ \E k \in 1..Len(toolStats) : toolStats[k].count >= 2
    /\ \E i \in RowIndices : data[i].tool_name = Null

\* C2: every summary returned by getAllToolStats has count > 0 and an
\* errorRate that is the number of the tool's records with has_error over
\* count, hence between 0 and 1.
C2_ErrorRateIsErrorsOverCount ==
    pc = "stats" =>
        \A k \in 1..Len(toolStats) :
            /\ toolStats[k].count > 0
            /\ toolStats[k].errorRate.den = toolStats[k].count
            /\ toolStats[k].errorRate.num = Cardinality(ErrorRowsOf(toolStats[k].name))
            /\ 0 <= toolStats[k].errorRate.num
            /\ toolStats[k].errorRate.num <= toolStats[k].errorRate.den

C2_Witness ==
    /\ pc = "stats"
    /\ \E k \in 1..Len(toolStats) :
          /\ 0 < toolStats[k].errorRate.num
          /\ toolStats[k].errorRate.num < toolStats[k].errorRate.den
    /\ \E k \in 1..Len(toolStats) : toolStats[k].errorRate.num = 0
    /\ \E i \in RowIndices : data[i].tool_name = Null /\ data[i].has_error

(***************************************************************************)
(* Properties of the flow graph                                            *)
(***************************************************************************)
nodes == sankeyData.nodes

links == sankeyData.links

Built(viewMode) == pc = "sankey" /\ sankeyData.viewMode = viewMode

\* A record that has a subdir, a tool_name and a step.
Complete(row) == row.subdir # Null /\ row.tool_name # Null /\ row.step.t = "number"

CompleteRows == {i \in RowIndices : Complete(data[i])}

RowsAt(subdir, tool, step) ==
    {i \in CompleteRows :
        data[i].subdir = subdir /\ data[i].tool_name = tool /\ data[i].step = step}

SubdirsOf == {data[i].subdir : i \in CompleteRows}

ToolsOf == {data[i].tool_name : i \in CompleteRows}

StepsOf == {data[i].step : i \in CompleteRows}

StepsIn(subdir) == {data[i].step : i \in {j \in CompleteRows : data[j].subdir = subdir}}

\* step and next are neighbours in the ascending step order of a use-case.
Adjacent(subdir, step, next) ==
    /\ step \in StepsIn(subdir)
    /\ next \in StepsIn(subdir)
    /\ step.v < next.v
    /\ ~\E mid \in StepsIn(subdir) : step.v < mid.v /\ mid.v < next.v

\* The use-case has fromTool at step and toTool at the step that follows.
CoOccur(subdir, fromTool, step, toTool, next) ==
    /\ Adjacent(subdir, step, next)
    /\ RowsAt(subdir, fromTool, step) # {}
    /\ RowsAt(subdir, toTool, next) # {}

\* The rows of fromTool at step whose use-case has toTool at the step that
\* follows: the source-step rows of all use-cases in which the two co-occur.
SourceRows(fromTool, step, toTool, next) ==
    {i \in CompleteRows :
        /\ data[i].tool_name = fromTool
        /\ data[i].step = step
        /\ CoOccur(data[i].subdir, fromTool, step, toTool, next)}

NodesAt(tool, step) == {n \in 1..Len(nodes) : nodes[n].tool = tool /\ nodes[n].step = step}

\* The links that join the node of (fromTool, step) to that of (toTool, next).
LinksBetween(fromTool, step, toTool, next) ==
    {k \in 1..Len(links) :
        /\ links[k].source + 1 \in NodesAt(fromTool, step)
        /\ links[k].target + 1 \in NodesAt(toTool, next)}

\* C3: for any record sequence and view mode, no two nodes of the result
\* have the same tool and step.
C3_OneNodePerToolAndStep ==
    pc = "sankey" =>
        \A n, m \in 1..Len(nodes) :
            (nodes[n].tool = nodes[m].tool /\ nodes[n].step = nodes[m].step) => n = m

\* A tool seen at the same step in two use-cases, and its node.
C3_Witness ==
    /\ pc = "sankey"
    /\ \E tool \in ToolsOf, step \in StepsOf :
          /\ RowsAt("7", tool, step) # {}
          /\ RowsAt("u1", tool, step) # {}
          /\ NodesAt(tool, step) # {}

\* C4: in 'all' mode there is exactly one link for each ordered pair of
\* nodes (fromTool at step, toTool at next) that co-occur at consecutive
\* steps of at least one use-case, and its value is the number of
\* source-step rows of fromTool summed over the use-cases in which the two
\* co-occur.  Stated for tables in which every record is complete.
C4_OneLinkPerCoOccurringPair ==
    (Built("all") /\ CompleteRows = RowIndices) =>
        \A fromTool \in ToolsOf, toTool \in ToolsOf, step \in StepsOf, next \in StepsOf :
            LET expected == Cardinality(SourceRows(fromTool, step, toTool, next))
                between == LinksBetween(fromTool, step, toTool, next)
            IN  IF expected > 0
                THEN /\ Cardinality(between) = 1
                     /\ \A k \in between : links[k].value = expected
                ELSE between = {}

\* C5: for a single use-case with steps [s, s+1], tool A once at s and
\* tools B and C at s+1, the links A->B and A->C each have value exactly 1;
\* and every link goes from a node at one step of some use-case to a node at
\* the next step present in that use-case.  Stated for tables in which every
\* record is complete.
C5_UnitLinksBetweenAdjacentSteps ==
    (Built("all") /\ CompleteRows = RowIndices) =>
        /\ \A subdir \in SubdirsOf, step \in StepsOf, next \in StepsOf,
              toolA \in ToolsOf, toolB \in ToolsOf, toolC \in ToolsOf :
              ( /\ SubdirsOf = {subdir}
                /\ StepsIn(subdir) = {step, next}
                /\ next.v = step.v + 1
                /\ toolB # toolC
                /\ Cardinality(RowsAt(subdir, toolA, step)) = 1
                /\ RowsAt(subdir, toolB, next) # {}
                /\ RowsAt(subdir, toolC, next) # {} )
              => \A toTool \in {toolB, toolC} :
                    /\ Cardinality(LinksBetween(toolA, step, toTool, next)) = 1
                    /\ \A k \in LinksBetween(toolA, step, toTool, next) : links[k].value = 1
        /\ \A k \in 1..Len(links) :
              \E subdir \in SubdirsOf :
                  Adjacent(subdir, nodes[links[k].source + 1].step,
                           nodes[links[k].target + 1].step)

\* C6: a link's errorCount counts only source-step rows with has_error, so
\* it is at most the number of erroring source-step rows of its use-cases
\* whatever the has_error of the target-step rows; and one use-case with X
\* at a step (no error) and Y at the next (error) yields, in 'all' mode, two
\* nodes and one link of value 1 and errorCount 0.
C6_LinkErrorsAreSourceErrors ==
    Built("all") /\ CompleteRows = RowIndices =>
        /\ \A fromTool \in ToolsOf, toTool \in ToolsOf, step \in StepsOf, next \in StepsOf :
              \A k \in LinksBetween(fromTool, step, toTool, next) :
                  links[k].errorCount <=
                      Cardinality({i \in SourceRows(fromTool, step, toTool, next) :
                                      data[i].has_error})
        /\ \A subdir \in SubdirsOf, toolX \in ToolsOf, toolY \in ToolsOf :
              ( /\ toolX # toolY
                /\ Len(data) = 2
                /\ data[1] = Row(toolX, subdir, StepNum(1), FALSE)
                /\ data[2] = Row(toolY, subdir, StepNum(2), TRUE) )
              => /\ Len(nodes) = 2
                 /\ Len(links) = 1
                 /\ links[1].value = 1
                 /\ links[1].errorCount = 0

\* C7: in 'errors' view mode every node of the result has errorCount >= 1
\* and every link has errorCount >= 1.
C7_ErrorsViewKeepsOnlyErrors ==
    Built("errors") =>
        /\ \A n \in 1..Len(nodes) : nodes[n].errorCount >= 1
        /\ \A k \in 1..Len(links) : links[k].errorCount >= 1

\* An 'errors' graph that has a link, from a table in which some complete
\* record has no error.
C7_Witness ==
    /\ Built("errors")
    /\ Len(links) >= 1
    /\ \E i \in CompleteRows : ~data[i].has_error

\* C8: for every record sequence in which no record has has_error true,
\* 'errors' view mode returns no node and no link.
C8_NoErrorsNoGraph ==
    (Built("errors") /\ \A i \in RowIndices : ~data[i].has_error) =>
        (nodes = <<>> /\ links = <<>>)

\* An error-free table with two use-cases, built in 'errors' mode.
C8_Witness ==
    /\ Built("errors")
    /\ \A i \in RowIndices : ~data[i].has_error
    /\ Cardinality(SubdirsOf) >= 2
    /\ Cardinality(CompleteRows) >= 3

\* C9: a record that lacks subdir, tool_name or step contributes to no node,
\* no node count and no link value: the result is the one built from the
\* complete records alone; and a single record without subdir yields an
\* empty graph.
C9_IncompleteRowsContributeNothing ==
    pc = "sankey" =>
        /\ nodes = prepareSankeyData(SelectSeq(data, Complete), sankeyData.viewMode).nodes
        /\ links = prepareSankeyData(SelectSeq(data, Complete), sankeyData.viewMode).links
        /\ (Len(data) = 1 /\ data[1].subdir = Null) => (nodes = <<>> /\ links = <<>>)

\* C10: nodes are numbered contiguously from 0 in insertion order, and every
\* link has source and target that are indices into nodes, value >= 1 and
\* 0 <= errorCount <= value.
C10_IndicesAndWeights ==
    pc = "sankey" =>
        /\ DOMAIN sankeyData.nodeIndexMap = {nodes[n].name : n \in 1..Len(nodes)}
        /\ \A n \in 1..Len(nodes) : sankeyData.nodeIndexMap[nodes[n].name] = n - 1
        /\ \A k \in 1..Len(links) :
              /\ links[k].source \in 0..(Len(nodes) - 1)
              /\ links[k].target \in 0..(Len(nodes) - 1)
              /\ links[k].value >= 1
              /\ 0 <= links[k].errorCount
              /\ links[k].errorCount <= links[k].value

\* A graph with a link that gathered the rows of two use-cases, some of
\* them with an error.
C10_Witness ==
    /\ pc = "sankey"
    /\ Len(nodes) >= 2
    /\ \E k \in 1..Len(links) :
          /\ links[k].value >= 2
          /\ 0 < links[k].errorCount
          /\ links[k].errorCount < links[k].value
          /\ links[k].source # links[k].target

\* The complete records of a tool at a step, over all use-cases.
RowsOfNode(tool, step) ==
    {i \in CompleteRows : data[i].tool_name = tool /\ data[i].step = step}

\* C11: in 'all' mode each node's totalCount is the number of complete
\* records with the node's tool and step over all use-cases, and its
\* errorCount the number of those with has_error.  Stated for tables in
\* which every record is complete.
C11_NodeCountsCoverAllUseCases ==
    (Built("all") /\ CompleteRows = RowIndices) =>
        \A n \in 1..Len(nodes) :
            /\ nodes[n].totalCount = Cardinality(RowsOfNode(nodes[n].tool, nodes[n].step))
            /\ nodes[n].errorCount =
                  Cardinality({i \in RowsOfNode(nodes[n].tool, nodes[n].step) :
                                  data[i].has_error})

SetMin(set) == CHOOSE x \in set : \A y \in set : x <= y

\* The rows that make a node in the given view mode: all the complete rows
\* of the tool at the step, or, in 'errors' mode, those of the use-cases in
\* which the tool has an error at the step.
MakingRows(tool, step, viewMode) ==
    {i \in RowsOfNode(tool, step) :
        viewMode = "errors" =>
            \E j \in RowsAt(data[i].subdir, tool, step) : data[j].has_error}

\* Where the first occurrence of a use-case's subdir stands in the table.
FirstOccurrence(subdir) == SetMin({i \in CompleteRows : data[i].subdir = subdir})

\* The visit that first sees a node when use-cases are taken in the order
\* in which their subdir first occurs, steps ascending, and the tools of a
\* step in the order of their rows.
FirstVisit(tool, step, viewMode) ==
    LET first == SetMin({FirstOccurrence(data[i].subdir) :
                            i \in MakingRows(tool, step, viewMode)})
    IN  <<first, step.v, SetMin(RowsAt(data[first].subdir, tool, step))>>

VisitBefore(a, b) ==
    \/ a[1] < b[1]
    \/ a[1] = b[1] /\ a[2] < b[2]
    \/ a[1] = b[1] /\ a[2] = b[2] /\ a[3] < b[3]

\* C13: use-cases are visited in the order in which their subdir values
\* first occur in the record sequence and, within a use-case, steps in
\* ascending numeric order; node indices are assigned in first-seen order
\* under that iteration.  Stated for tables in which every record is
\* complete.
C13_NodesInFirstSeenOrder ==
    (pc = "sankey" /\ CompleteRows = RowIndices) =>
        \A n \in 1..Len(nodes), m \in 1..Len(nodes) :
            n < m => VisitBefore(FirstVisit(nodes[n].tool, nodes[n].step, sankeyData.viewMode),
                                 FirstVisit(nodes[m].tool, nodes[m].step, sankeyData.viewMode))

\* C14: for an empty record sequence prepareSankeyData returns nodes = []
\* and links = [] and raises no error, in either view mode: the result is
\* the well-formed empty graph, with no node position and the step count 1.
C14_EmptyTableEmptyGraph ==
    (pc = "sankey" /\ data = <<>>) =>
        /\ nodes = <<>>
        /\ links = <<>>
        /\ sankeyData.nodeX = <<>>
        /\ sankeyData.stepCount = StepNum(1)
        /\ DOMAIN sankeyData.toolColors = {}

C14_Witness == Built("errors") /\ data = <<>>

\* The records the builder groups, the use-cases they form, and the steps
\* and visiting position of a use-case as the builder sees them.
GraphRows == {i \in RowIndices : GraphRow(data[i])}

GraphSubdirs == {data[i].subdir : i \in GraphRows}

GraphStepsIn(subdir) == {data[i].step : i \in {j \in GraphRows : data[j].subdir = subdir}}

SingleStep(subdir) == Cardinality(GraphStepsIn(subdir)) = 1

KeyPosition(subdir) ==
    LET keys == groupedByUseCaseKeys(data)
    IN  CHOOSE k \in 1..Len(keys) : keys[k] = subdir

\* The use-case has rows of the tool at the step that make a node in the
\* view mode.
Makes(subdir, tool, step, viewMode) ==
    LET rows == {i \in GraphRows : /\ data[i].subdir = subdir
                                   /\ data[i].tool_name = tool
                                   /\ data[i].step = step}
    IN  /\ rows # {}
        /\ viewMode = "errors" => \E i \in rows : data[i].has_error

IsZero(ratio) == ratio.num = 0 /\ ratio.den # 0

LexBefore(a, b) ==
    LET ua == CodeUnits[a]
        ub == CodeUnits[b]
    IN  \E k \in 1..Len(ub) :
            /\ \A j \in 1..(k - 1) : j <= Len(ua) /\ ua[j] = ub[j]
            /\ (k > Len(ua) \/ ua[k] < ub[k])

\* C19: getAllToolStats returns exactly one summary per distinct non-empty
\* tool name, in ascending lexicographic order of tool name, whatever the
\* order of the records.
C19_OneSummaryPerToolAscending ==
    pc = "stats" =>
        /\ {toolStats[k].name : k \in 1..Len(toolStats)}
              = {data[i].tool_name : i \in NamedRows}
        /\ \A k, m \in 1..Len(toolStats) :
              k < m => LexBefore(toolStats[k].name, toolStats[m].name)

\* Three tools met out of order, one of them twice.
C19_Witness ==
    /\ pc = "stats"
    /\ Len(toolStats) = 3
    /\ Len(data) = 4
    /\ \E i, j \in NamedRows :
          i < j /\ LexBefore(data[j].tool_name, data[i].tool_name)
    /\ data[1].tool_name = "a"
    /\ data[4].tool_name = "a"

\* C20: called without a color map, prepareSankeyData gives each tool the
\* palette entry at the tool's index in extractUniqueTools(data), the sorted
\* list of the table's distinct tool names, modulo the palette length, in
\* both view modes and for every order of the records.
C20_ColorByIndexAmongAllTools ==
    pc = "sankey" =>
        LET toolList == extractUniqueTools(data)
        IN  \A k \in 1..Len(toolList) :
                /\ toolList[k] \in DOMAIN sankeyData.toolColors
                /\ sankeyData.toolColors[toolList[k]] = colors[((k - 1) % Len(colors)) + 1]

(***************************************************************************)
(* Properties of the means                                                 *)
(***************************************************************************)
\* The rows prepareToolMetrics was asked about.
FilteredRows ==
    {i \in RowIndices : detailTool # Null => data[i].tool_name = detailTool}

IsZeroNumber(q) == q.t = "number" /\ q.num = 0

\* C17: for an empty record sequence, and for a tool filter that matches
\* no record, every mean and ratio of prepareToolMetrics (overallErrorRate,
\* avgDuration, avgTokens and the tokenDistribution entries) is 0 and never
\* NaN.
C17_EmptyMeansAreZero ==
    (pc = "metrics" /\ FilteredRows = {}) =>
        /\ IsZeroNumber(metrics.overallErrorRate)
        /\ IsZeroNumber(metrics.avgDuration)
        /\ IsZeroNumber(metrics.avgTokens)
        /\ IsZeroNumber(metrics.tokenDistribution.completion)
        /\ IsZeroNumber(metrics.tokenDistribution.prompt)
        /\ IsZeroNumber(metrics.tokenDistribution.cached_tokens_pct)

\* The records of the group in which the field is present, and their sum.
Present(field) == {i \in FilteredRows : data[i][field].t = "number"}

RECURSIVE SumOfField(_, _)
SumOfField(rowSet, field) ==
    IF rowSet = {} THEN 0
    ELSE LET i == CHOOSE j \in rowSet : TRUE
         IN  data[i][field].v + SumOfField(rowSet \ {i}, field)

\* mean = sum of the present values / number of records that have one.
IsMeanOfPresent(mean, field) ==
    /\ mean.t = "number"
    /\ mean.num * Cardinality(Present(field)) = SumOfField(Present(field), field) * mean.den

\* C18: the mean of a numeric field (duration, token_count, prompt_tokens,
\* completion_tokens) over a group of records is the sum of the values that
\* are present divided by the number of records in which the field is
\* present: a record whose field is absent or null is left out of the
\* average and does not count as a zero.  Stated for groups in which the
\* field is present at least once.
C18_MeanOverPresentValues ==
    pc = "metrics" =>
        /\ Present("duration") # {} => IsMeanOfPresent(metrics.avgDuration, "duration")
        /\ Present("token_count") # {} => IsMeanOfPresent(metrics.avgTokens, "token_count")
        /\ Present("prompt_tokens") # {} =>
              IsMeanOfPresent(metrics.tokenDistribution.prompt, "prompt_tokens")
        /\ Present("completion_tokens") # {} =>
              IsMeanOfPresent(metrics.tokenDistribution.completion, "completion_tokens")

(***************************************************************************)
(* Properties of node positions                                            *)
(***************************************************************************)
InUnitInterval(x) == x.den > 0 /\ 0 <= x.num /\ x.num <= x.den

\* C16: every node produced by either graph builder, dataProcessing's
\* prepareSankeyData and ToolFlowTab's builder with its synthetic and
\* terminal error nodes, has a normalized position x with 0 <= x <= 1.
C16_NodePositionsInUnitInterval ==
    pc \in {"sankey", "flow"} =>
        \A n \in 1..Len(nodes) : InUnitInterval(nodes[n].x)

(***************************************************************************)
(* ToolsTab (components/Tabs/ToolsTab.jsx): the summaries it loads, its    *)
(* search box and sort controls, and the colour of each card.              *)
(***************************************************************************)
TOOL_COLORS ==
    <<"#e6194b", "#3cb44b", "#ffe119", "#4363d8", "#f58231",
      "#911eb4", "#46f0f0", "#f032e6", "#bcf60c", "#fabebe",
      "#008080", "#e6beff", "#9a6324", "#fffac8", "#800000",
      "#aaffc3", "#808000", "#ffd8b1", "#000075", "#808080">>

\* No index passed to getToolColor.
UndefinedIndex == -1

\* hash = toolName.charCodeAt(i) + ((hash << 5) - hash), over the name.
\* The names used have at most two code units, for which hash << 5 stays
\* far below 2^31 and is hash * 32.
RECURSIVE HashUnits(_, _)
HashUnits(hash, units) ==
    IF units = <<>> THEN hash
    ELSE HashUnits(Head(units) + (hash * 32 - hash), Tail(units))

MathAbs(n) == IF n < 0 THEN 0 - n ELSE n

getToolColor(name, index) ==
    IF index # UndefinedIndex
    THEN TOOL_COLORS[(index % Len(TOOL_COLORS)) + 1]
    ELSE TOOL_COLORS[(MathAbs(HashUnits(0, CodeUnits[name])) % Len(TOOL_COLORS)) + 1]

\* toLowerCase, on code units.
ToLowerCase(units) ==
    [k \in 1..Len(units) |-> IF units[k] >= 65 /\ units[k] <= 90 THEN units[k] + 32
                             ELSE units[k]]

\* String.prototype.includes, on code units.
Includes(units, part) ==
    \E from \in 0..(Len(units) - Len(part)) :
        \A k \in 1..Len(part) : units[from + k] = part[k]

\* a.localeCompare(b) < 0 for the names used: letters compare without case
\* first, and of two names that differ in case only the lower case is first.
LocaleLess(a, b) ==
    LET la == ToLowerCase(CodeUnits[a])
        lb == ToLowerCase(CodeUnits[b])
    IN  \/ UnitsLess(la, lb)
        \/ la = lb /\ UnitsLess(CodeUnits[b], CodeUnits[a])

\* aVal - bVal < 0 for the numeric fields; errorRate is a quotient.
NumberLess(a, b, key) ==
    IF key = "errorRate"
    THEN a.errorRate.num * b.errorRate.den < b.errorRate.num * a.errorRate.den
    ELSE a[key] < b[key]

\* The comparator of filteredStats returns a negative number for (a, b).
ComparesBefore(a, b, key, order) ==
    IF key = "name"
    THEN IF order = "asc" THEN LocaleLess(a.name, b.name) ELSE LocaleLess(b.name, a.name)
    ELSE IF order = "asc" THEN NumberLess(a, b, key) ELSE NumberLess(b, a, key)

\* Array.prototype.sort with the comparator: stable.
RECURSIVE InsertStat(_, _, _, _)
InsertStat(sorted, e, key, order) ==
    IF sorted = <<>> THEN <<e>>
    ELSE IF ComparesBefore(e, Head(sorted), key, order) THEN <<e>> \o sorted
    ELSE <<Head(sorted)>> \o InsertStat(Tail(sorted), e, key, order)

RECURSIVE SortStats(_, _, _, _)
SortStats(sorted, stats, key, order) ==
    IF stats = <<>> THEN sorted
    ELSE SortStats(InsertStat(sorted, Head(stats), key, order), Tail(stats), key, order)

filteredStats(stats, term, key, order) ==
    SortStats(<<>>,
              SelectSeq(stats, LAMBDA tool :
                  Includes(ToLowerCase(CodeUnits[tool.name]), ToLowerCase(CodeUnits[term]))),
              key, order)

\* A load in flight and what its callbacks closed over.
Load(id, tool, viewMode) == [id |-> id, toolName |-> tool, viewMode |-> viewMode]

SearchTerms == {"", "a", "B"}

\* The sort keys whose fields the summaries carry.
SortKeys == {"name", "count", "errorRate", "useCases"}

InitToolsTab ==
    /\ data \in SeqsUpTo(StatsRows, MaxRows)
    /\ pc = "mounted"
    /\ toolStats = <<>>
    /\ sankeyData = NoSankey
    /\ detailTool = Null
    /\ metrics = NoMetrics
    /\ tokenMetrics = <<>>
    /\ csvOk \in BOOLEAN
    /\ inFlight = {Load(1, Null, Null)}
    /\ isLoading = TRUE
    /\ searchTerm = ""
    /\ sortKey = "count"
    /\ sortOrder = "desc"
    /\ availableTools = <<>>
    /\ selectedTools = <<>>
    /\ currentViewMode = "all"

\* .then(data => { setToolStats(getAllToolStats(data)); setLoading(false) })
ToolsTabLoadResolves ==
    /\ inFlight # {}
    /\ csvOk
    /\ toolStats' = getAllToolStats(data)
    /\ isLoading' = FALSE
    /\ inFlight' = {}
    /\ pc' = "stats"
    /\ UNCHANGED <<data, sankeyData, detailTool, metrics, tokenMetrics, csvOk, searchTerm,
                   sortKey, sortOrder, availableTools, selectedTools, currentViewMode>>

\* .catch(err => { setLoading(false) })
ToolsTabLoadRejects ==
    /\ inFlight # {}
    /\ ~csvOk
    /\ isLoading' = FALSE
    /\ inFlight' = {}
    /\ pc' = "failed"
    /\ UNCHANGED <<data, toolStats, sankeyData, detailTool, metrics, tokenMetrics, csvOk,
                   searchTerm, sortKey, sortOrder, availableTools, selectedTools,
                   currentViewMode>>

SetSearchTerm ==
    \E term \in SearchTerms :
        /\ term # searchTerm
        /\ searchTerm' = term
        /\ UNCHANGED <<data, pc, toolStats, sankeyData, detailTool, metrics, tokenMetrics,
                       csvOk, inFlight, isLoading, sortKey, sortOrder, availableTools,
                       selectedTools, currentViewMode>>

SetSortKey ==
    \E key \in SortKeys :
        /\ key # sortKey
        /\ sortKey' = key
        /\ UNCHANGED <<data, pc, toolStats, sankeyData, detailTool, metrics, tokenMetrics,
                       csvOk, inFlight, isLoading, searchTerm, sortOrder, availableTools,
                       selectedTools, currentViewMode>>

\* setSortOrder(sortOrder === 'asc' ? 'desc' : 'asc')
ToggleSortOrder ==
    /\ sortOrder' = IF sortOrder = "asc" THEN "desc" ELSE "asc"
    /\ UNCHANGED <<data, pc, toolStats, sankeyData, detailTool, metrics, tokenMetrics,
                   csvOk, inFlight, isLoading, searchTerm, sortKey, availableTools,
                   selectedTools, currentViewMode>>

NextToolsTab ==
    \/ ToolsTabLoadResolves
    \/ ToolsTabLoadRejects
    \/ SetSearchTerm
    \/ SetSortKey
    \/ ToggleSortOrder

SpecToolsTab == InitToolsTab /\ [][NextToolsTab]_vars

\* The cards on screen, in order, and the colour of the card of a tool:
\* <ToolCard tool={tool} toolIndex={index}> over filteredStats.
Cards == filteredStats(toolStats, searchTerm, sortKey, sortOrder)

CardNames == {Cards[k].name : k \in 1..Len(Cards)}

CardColor(name) ==
    getToolColor(name, (CHOOSE k \in 1..Len(Cards) : Cards[k].name = name) - 1)

\* C21: in ToolsTab the colour shown for a tool is the same for every
\* search term, sort key and sort order: a change of the search or of the
\* sorting changes the colour of no tool that stays on screen.
C21_ColorKeptBySearchAndSort ==
    [][(toolStats' = toolStats /\ pc = "stats")
          => \A name \in CardNames :
                name \in CardNames' => CardColor(name)' = CardColor(name)]_vars

(***************************************************************************)
(* MetricsTab (components/Tabs/MetricsTab.jsx): the tools it offers, the   *)
(* tools selected, and the colour map of the tools.                        *)
(***************************************************************************)
\* useMemo over availableTools; the faulty variant counts the index from 1.
toolColorMapFromOne(tools) ==
    [tool \in {tools[k] : k \in 1..Len(tools)} |->
        LET index == CHOOSE k \in 1..Len(tools) : tools[k] = tool
        IN  EXTENDED_COLORS[(index % Len(EXTENDED_COLORS)) + 1]]

toolColorMap(tools) ==
    [tool \in {tools[k] : k \in 1..Len(tools)} |->
        LET index == (CHOOSE k \in 1..Len(tools) : tools[k] = tool) - 1
        IN  EXTENDED_COLORS[(index % Len(EXTENDED_COLORS)) + 1]]

\* The number of tools selected after a load.
DefaultSelectionSize == 5

\* tools.slice(0, 5); the faulty variant selects every tool.
DefaultSelectionAll(tools) == tools

DefaultSelection(tools) ==
    SubSeq(tools, 1, IF Len(tools) < DefaultSelectionSize THEN Len(tools)
                     ELSE DefaultSelectionSize)

\* if (tool && !selectedTools.includes(tool)) setSelectedTools([...selectedTools, tool])
handleAddTool(selected, tool) ==
    IF ~Falsy(tool) /\ ~Contains(selected, tool) THEN Append(selected, tool) ELSE selected

\* selectedTools.filter(t => t !== toolToRemove)
removeTool(selected, toolToRemove) == SelectSeq(selected, LAMBDA t : t # toolToRemove)

\* The options of the dropdown: the available tools not selected.
Options(available, selected) ==
    {available[k] : k \in {j \in 1..Len(available) : ~Contains(selected, available[j])}}

\* Tables for MetricsTab: one record for each tool of a set of up to six,
\* with rows of a blank tool_name between them or not, in descending or in
\* ascending order of name.
MetricsTabTools == <<"b", "a", "C", "B", "AB", "A">>

RECURSIVE Reverse(_)
Reverse(seq) == IF seq = <<>> THEN <<>> ELSE Append(Reverse(Tail(seq)), Head(seq))

MetricsTabTables ==
    {Map(SelectSeq(listing, LAMBDA name : name \in present),
         LAMBDA name : Row(name, "u1", StepNum(1), FALSE)) :
        listing \in {MetricsTabTools, Reverse(MetricsTabTools),
                     <<Null>> \o MetricsTabTools \o <<Null>>},
        present \in SUBSET ({MetricsTabTools[k] : k \in 1..Len(MetricsTabTools)} \cup {Null})}

InitMetricsTab ==
    /\ data \in MetricsTabTables
    /\ pc = "mounted"
    /\ toolStats = <<>>
    /\ sankeyData = NoSankey
    /\ detailTool = Null
    /\ metrics = NoMetrics
    /\ tokenMetrics = <<>>
    /\ csvOk \in BOOLEAN
    /\ inFlight = {Load(1, Null, Null)}
    /\ isLoading = TRUE
    /\ searchTerm = ""
    /\ sortKey = "count"
    /\ sortOrder = "desc"
    /\ availableTools = <<>>
    /\ selectedTools = <<>>
    /\ currentViewMode = "all"

\* .then(parsed => { setAvailableTools(tools); setSelectedTools(tools.slice(0, 5));
\* setIsLoading(false) })
MetricsTabLoadResolves ==
    /\ inFlight # {}
    /\ csvOk
    /\ availableTools' = extractUniqueTools(data)
    /\ selectedTools' = DefaultSelection(extractUniqueTools(data))
    /\ isLoading' = FALSE
    /\ inFlight' = {}
    /\ pc' = "tools"
    /\ UNCHANGED <<data, toolStats, sankeyData, detailTool, metrics, tokenMetrics, csvOk,
                   searchTerm, sortKey, sortOrder, currentViewMode>>

\* .catch(error => { setIsLoading(false) })
MetricsTabLoadRejects ==
    /\ inFlight # {}
    /\ ~csvOk
    /\ isLoading' = FALSE
    /\ inFlight' = {}
    /\ pc' = "failed"
    /\ UNCHANGED <<data, toolStats, sankeyData, detailTool, metrics, tokenMetrics, csvOk,
                   searchTerm, sortKey, sortOrder, availableTools, selectedTools,
                   currentViewMode>>

\* onChange of the dropdown, with one of its options.
HandleAddTool ==
    \E tool \in Options(availableTools, selectedTools) :
        /\ ~isLoading
        /\ selectedTools' = handleAddTool(selectedTools, tool)
        /\ pc' = "selected"
        /\ UNCHANGED <<data, toolStats, sankeyData, detailTool, metrics, tokenMetrics,
                       csvOk, inFlight, isLoading, searchTerm, sortKey, sortOrder,
                       availableTools, currentViewMode>>

\* onRemove of the badge of a selected tool.
RemoveTool ==
    \E tool \in {selectedTools[k] : k \in 1..Len(selectedTools)} :
        /\ ~isLoading
        /\ selectedTools' = removeTool(selectedTools, tool)
        /\ pc' = "selected"
        /\ UNCHANGED <<data, toolStats, sankeyData, detailTool, metrics, tokenMetrics,
                       csvOk, inFlight, isLoading, searchTerm, sortKey, sortOrder,
                       availableTools, currentViewMode>>

\* "Add Default Tools", shown when no tool is selected.
AddDefaultTools ==
    /\ ~isLoading
    /\ Len(selectedTools) = 0
    /\ Len(availableTools) > 0
    /\ selectedTools' = DefaultSelection(availableTools)
    /\ pc' = "selected"
    /\ UNCHANGED <<data, toolStats, sankeyData, detailTool, metrics, tokenMetrics, csvOk,
                   inFlight, isLoading, searchTerm, sortKey, sortOrder, availableTools,
                   currentViewMode>>

NextMetricsTab ==
    \/ MetricsTabLoadResolves
    \/ MetricsTabLoadRejects
    \/ HandleAddTool
    \/ RemoveTool
    \/ AddDefaultTools

SpecMetricsTab == InitMetricsTab /\ [][NextMetricsTab]_vars

\* The distinct tool names of the table and the place of a name among them
\* in ascending lexicographic order, counted from 0.
TableTools == {data[i].tool_name : i \in NamedRows}

SortedIndex(tool) == Cardinality({name \in TableTools : LexBefore(name, tool)})

\* C22: in MetricsTab, after any sequence of add-tool and remove-tool
\* operations the colour of every tool is the palette entry at the tool's
\* index in the sorted list of all available tools, whichever tools are
\* selected and in whatever order they were added.
C22_ColorByIndexAmongAvailableTools ==
    pc \in {"tools", "selected"} =>
        /\ DOMAIN toolColorMap(availableTools) = TableTools
        /\ \A tool \in TableTools :
              toolColorMap(availableTools)[tool]
                  = EXTENDED_COLORS[(SortedIndex(tool) % Len(EXTENDED_COLORS)) + 1]

\* Every tool selected again after removals, in an order that is not the
\* sorted one.
C22_Witness ==
    /\ pc = "selected"
    /\ Len(availableTools) >= 3
    /\ Len(selectedTools) = Len(availableTools)
    /\ selectedTools # availableTools

\* C30: in MetricsTab, after a successful load selectedTools is the first
\* min(5, n) tools of the sorted list of the n available tools, and after
\* any sequence of add-tool and remove-tool operations selectedTools has no
\* duplicate and holds only tools that are in availableTools.
C30_SelectionWithinAvailableTools ==
    /\ pc = "tools" =>
          /\ Len(selectedTools)
                = (IF Cardinality(TableTools) < 5 THEN Cardinality(TableTools) ELSE 5)
          /\ \A k \in 1..Len(selectedTools) : SortedIndex(selectedTools[k]) = k - 1
    /\ pc \in {"tools", "selected"} =>
          /\ \A k, m \in 1..Len(selectedTools) :
                selectedTools[k] = selectedTools[m] => k = m
          /\ \A k \in 1..Len(selectedTools) : selectedTools[k] \in TableTools
          /\ \A k \in 1..Len(selectedTools) : Contains(availableTools, selectedTools[k])

\* Six tools, of which the load selected five; the sixth added, the first
\* removed and added again.
C30_Witness ==
    /\ pc = "selected"
    /\ Len(availableTools) = 6
    /\ Len(selectedTools) = 6
    /\ selectedTools[5] = availableTools[6]
    /\ selectedTools[6] = availableTools[1]

(***************************************************************************)
(* ToolFlowTab with the view-mode buttons that reload the graph            *)
(* (components/Tabs/ToolFlowTab.jsx, the component whose toggleViewMode    *)
(* fetches the CSV again): its builder is the one of dataProcessing.js     *)
(* with the colour map handed in, and it reads viewMode from the render in *)
(* which the load was started.                                             *)
(***************************************************************************)
flowTabPrepareSankeyData(rows, givenColorMap, viewMode) ==
    [prepareSankeyData(rows, viewMode) EXCEPT !.toolColors = givenColorMap]

MaxFlowTabRows == 2

InitFlowTab ==
    /\ data \in SeqsUpTo(SankeyRows, MaxFlowTabRows)
    /\ pc = "mounted"
    /\ toolStats = <<>>
    /\ sankeyData = NoSankey
    /\ detailTool = Null
    /\ metrics = NoMetrics
    /\ tokenMetrics = <<>>
    /\ csvOk \in BOOLEAN
    /\ inFlight = {Load(1, Null, "all")}
    /\ isLoading = TRUE
    /\ searchTerm = ""
    /\ sortKey = "count"
    /\ sortOrder = "desc"
    /\ availableTools = <<>>
    /\ selectedTools = <<>>
    /\ currentViewMode = "all"

\* The .then of the mount effect and of toggleViewMode:
\* setSankeyData(prepareSankeyData(parsed, colorMap)); setIsLoading(false),
\* prepareSankeyData being the function of the render that started the
\* load, with that render's viewMode.
FlowTabLoadResolves ==
    \E load \in inFlight :
        /\ csvOk
        /\ sankeyData' = flowTabPrepareSankeyData(data, colorMap(data), load.viewMode)
        /\ isLoading' = FALSE
        /\ inFlight' = inFlight \ {load}
        /\ pc' = "graph"
        /\ UNCHANGED <<data, toolStats, detailTool, metrics, tokenMetrics, csvOk,
                       searchTerm, sortKey, sortOrder, availableTools, selectedTools,
                       currentViewMode>>

\* .catch(error => { setIsLoading(false) })
FlowTabLoadRejects ==
    \E load \in inFlight :
        /\ ~csvOk
        /\ isLoading' = FALSE
        /\ inFlight' = inFlight \ {load}
        /\ pc' = "failed"
        /\ UNCHANGED <<data, toolStats, sankeyData, detailTool, metrics, tokenMetrics,
                       csvOk, searchTerm, sortKey, sortOrder, availableTools,
                       selectedTools, currentViewMode>>

\* The buttons are rendered when the component is not loading and holds a
\* graph with a node.
ButtonsRendered == ~isLoading /\ pc = "graph" /\ Len(sankeyData.nodes) > 0

\* toggleViewMode, from either button: setViewMode(newMode);
\* setIsLoading(true); fetch(...).
ToggleViewMode ==
    /\ ButtonsRendered
    /\ currentViewMode' = IF currentViewMode = "all" THEN "errors" ELSE "all"
    /\ isLoading' = TRUE
    /\ inFlight' = inFlight \cup {Load(2, Null, currentViewMode)}
    /\ UNCHANGED <<data, pc, toolStats, sankeyData, detailTool, metrics, tokenMetrics,
                   csvOk, searchTerm, sortKey, sortOrder, availableTools, selectedTools>>

NextFlowTab == FlowTabLoadResolves \/ FlowTabLoadRejects \/ ToggleViewMode

SpecFlowTab == InitFlowTab /\ [][NextFlowTab]_vars

\* C23: in ToolFlowTab, after any sequence of view-mode toggles, whenever
\* the component is not loading the graph it holds was built for the
\* current view mode: sankeyData.viewMode equals the viewMode state.
C23_GraphBuiltForCurrentViewMode ==
    (pc = "graph" /\ ~isLoading) => sankeyData.viewMode = currentViewMode

\* C29: in ToolFlowTab, if the loaded data has at least one graph-eligible
\* record, then after any sequence of view-mode toggles, each followed by
\* the completion of its reload, the view-mode buttons are still rendered:
\* the component is not left in the 'No data available' placeholder.
C29_ButtonsStayRendered ==
    (pc = "graph" /\ ~isLoading /\ \E i \in RowIndices : GraphRow(data[i]))
        => ButtonsRendered

-----------------------------------------------------------------------------
\* ToolDetail (components/ToolDetail.jsx, lines 49-210): the detail page of the
\* tool named by the route parameter toolName (detailTool).  Its effect runs
\* at mount and again whenever toolName changes; each run starts its own load,
\* and the effect returns no cleanup, so an earlier load stays in flight and
\* its .then still runs when it completes.

\* Rows of the table behind the page.
MaxDetailRows == 2

\* Loads that may be in flight at once.
MaxInFlight == 2

\* The number that tells one load in flight from another: the least one free.
NextLoadId == CHOOSE id \in 1..(MaxInFlight + 1) :
                 /\ \A load \in inFlight : load.id # id
                 /\ \A other \in 1..(id - 1) : \E load \in inFlight : load.id = other

\* const { toolName } = useParams(): a segment of the route, always a string.
RouteToolNames == ToolNames \ {Null}

\* useState(null) for metrics, useState(true) for loading; the mount runs the
\* effect once: setLoading(true); loadCSVData('/agent_metrics.csv').
InitDetail ==
    /\ data \in SeqsUpTo(MetricRows, MaxDetailRows)
    /\ pc = "mounted"
    /\ toolStats = <<>>
    /\ sankeyData = NoSankey
    /\ detailTool \in RouteToolNames
    /\ metrics = NoMetrics
    /\ tokenMetrics = <<>>
    /\ csvOk \in BOOLEAN
    /\ inFlight = {Load(1, detailTool, Null)}
    /\ isLoading = TRUE
    /\ searchTerm = ""
    /\ sortKey = "count"
    /\ sortOrder = "desc"
    /\ availableTools = <<>>
    /\ selectedTools = <<>>
    /\ currentViewMode = "all"

\* The route changes to another tool: the effect of [toolName] runs again,
\* setLoading(true) and a new load whose .then closes over the new toolName.
Navigate ==
    \E tool \in RouteToolNames :
        /\ tool # detailTool
        /\ Cardinality(inFlight) < MaxInFlight
        /\ detailTool' = tool
        /\ isLoading' = TRUE
        /\ inFlight' = inFlight \cup {Load(NextLoadId, tool, Null)}
        /\ UNCHANGED <<data, pc, toolStats, sankeyData, metrics, tokenMetrics, csvOk,
                       searchTerm, sortKey, sortOrder, availableTools, selectedTools,
                       currentViewMode>>

\* .then(data => { ... setMetrics(prepareToolMetrics(data, toolName)); ...
\* setLoading(false) }) of any load in flight, toolName being the one of the
\* effect run that started the load.
DetailLoadResolves ==
    \E load \in inFlight :
        /\ csvOk
        /\ inFlight' = inFlight \ {load}
        /\ metrics' = prepareToolMetrics(data, load.toolName)
        /\ isLoading' = FALSE
        /\ pc' = "detail"
        /\ UNCHANGED <<data, toolStats, sankeyData, detailTool, tokenMetrics, csvOk,
                       searchTerm, sortKey, sortOrder, availableTools, selectedTools,
                       currentViewMode>>

\* loadCSVData rejects (fetch rejected, or its throw on !response.ok): the
\* promise chain of the effect has a .then and no .catch, so no state is set.
DetailLoadRejects ==
    \E load \in inFlight :
        /\ ~csvOk
        /\ inFlight' = inFlight \ {load}
        /\ pc' = "failed"
        /\ UNCHANGED <<data, toolStats, sankeyData, detailTool, metrics, tokenMetrics,
                       csvOk, isLoading, searchTerm, sortKey, sortOrder, availableTools,
                       selectedTools, currentViewMode>>

NextDetail == Navigate \/ DetailLoadResolves \/ DetailLoadRejects

SpecDetail == InitDetail /\ [][NextDetail]_vars

\* A load in flight settles: the browser answers every fetch, and Papa.parse
\* calls complete or error.  The user owes no navigation.  Both actions take
\* the load out of inFlight, so a step of theirs always changes inFlight.
FairSpecDetail ==
    SpecDetail /\ WF_inFlight(DetailLoadResolves) /\ WF_inFlight(DetailLoadRejects)

\* C24: in ToolDetail, once every load has completed, the metrics held are
\* those computed for the current toolName, whatever the order in which the
\* loads completed.
C24_LastLoadWins ==
    (pc = "detail" /\ inFlight = {}) => metrics = prepareToolMetrics(data, detailTool)

\* C25: when loading the CSV fails, a view that is loading eventually leaves
\* its loading state; here for ToolDetail, the view whose load has no .catch.
C25_FailedLoadLeavesLoading == (~csvOk /\ isLoading) ~> ~isLoading

-----------------------------------------------------------------------------
\* Properties of ToolFlowTab's builder with synthetic error nodes
\* (SpecFlow, the graph being the one LoadToolFlow built).

FlowBuilt(viewMode) == pc = "flow" /\ sankeyData.viewMode = viewMode

\* At least one record at the step has has_error true.
ErrorAtStep(step) == \E i \in RowIndices : data[i].step = step /\ data[i].has_error

\* The synthetic error nodes placed after a step, and the terminal ones.
ErrorNodesAfter(step) ==
    {n \in 1..Len(nodes) :
        nodes[n].isErrorNode /\ nodes[n].tool = "Error" /\ nodes[n].fromStep = step}

TerminalErrorNodes ==
    {n \in 1..Len(nodes) : nodes[n].isErrorNode /\ nodes[n].tool = "Terminal Error"}

\* C26: in errors mode a synthetic error node exists between adjacent steps
\* s and s' if and only if at least one record at step s has has_error true,
\* and then exactly one; a terminal error node exists if and only if at least
\* one record at the final step has has_error true; in normal mode there is
\* no synthetic error node.
C26_ErrorNodesWhereErrorsAre ==
    /\ FlowBuilt("normal") => \A n \in 1..Len(nodes) : ~nodes[n].isErrorNode
    /\ FlowBuilt("errors") =>
          LET steps == allSteps(data)
          IN  /\ \A i \in 1..(Len(steps) - 1) :
                    Cardinality(ErrorNodesAfter(steps[i])) =
                        IF ErrorAtStep(steps[i]) THEN 1 ELSE 0
              /\ Len(steps) > 0 =>
                    Cardinality(TerminalErrorNodes) =
                        IF ErrorAtStep(steps[Len(steps)]) THEN 1 ELSE 0

\* The links from a tool's node to a synthetic error node, terminal or not
\* (source and target are node ids, counted from 0).
ToolToErrorLinks ==
    SelectSeq(links, LAMBDA l : /\ ~nodes[l.source + 1].isErrorNode
                                /\ nodes[l.target + 1].isErrorNode)

ErroringGraphRows == {i \in GraphRows : data[i].has_error}

\* C27: in errors mode every graph-eligible record with has_error true is
\* counted in exactly one link from its tool's node to a synthetic error
\* node, so the values of all tool-to-error-node links sum to the number of
\* erroring graph-eligible records.
C27_ErrorLinksCountErroringRecords ==
    FlowBuilt("errors") =>
        SumSeq(Map(ToolToErrorLinks, LAMBDA l : l.value)) = Cardinality(ErroringGraphRows)

-----------------------------------------------------------------------------
\* The two view modes of dataProcessing's prepareSankeyData compared
\* (SpecSankey): the graph of "all" mode for the table whose graph is held.
AllModeGraph == prepareSankeyData(data, "all")

\* A node of one graph and a node of the other stand for the same tool at
\* the same step.
SameToolAndStep(n, m) == n.tool = m.tool /\ n.step = m.step

\* C28: for the same record sequence the errors-mode result is contained in
\* the all-mode result: every errors-mode node has the (tool, step) of an
\* all-mode node, and every errors-mode link joins the same (tool, step)
\* endpoints as an all-mode link whose value and errorCount are at least as
\* large.
C28_ErrorsModeWithinAllMode ==
    Built("errors") =>
        LET all == AllModeGraph
        IN  /\ \A n \in 1..Len(nodes) :
                  \E m \in 1..Len(all.nodes) : SameToolAndStep(nodes[n], all.nodes[m])
            /\ \A l \in 1..Len(links) :
                  \E k \in 1..Len(all.links) :
                      /\ SameToolAndStep(nodes[links[l].source + 1],
                                         all.nodes[all.links[k].source + 1])
                      /\ SameToolAndStep(nodes[links[l].target + 1],
                                         all.nodes[all.links[k].target + 1])
                      /\ all.links[k].value >= links[l].value
                      /\ all.links[k].errorCount >= links[l].errorCount

\* An errors-mode graph with a link whose all-mode counterpart counts more
\* records: the use-cases without an error on the link are missing from it.
C28_Witness ==
    /\ Built("errors")
    /\ \E l \in 1..Len(links) :
          \E k \in 1..Len(AllModeGraph.links) :
              /\ SameToolAndStep(nodes[links[l].source + 1],
                                 AllModeGraph.nodes[AllModeGraph.links[k].source + 1])
              /\ SameToolAndStep(nodes[links[l].target + 1],
                                 AllModeGraph.nodes[AllModeGraph.links[k].target + 1])
              /\ AllModeGraph.links[k].value > links[l].value

====
